---- MODULE Spec2Model ----
(***************************************************************************)
(* Model of data_extraction/data_extractor.py (class InvoiceExtractor).    *)
(*                                                                         *)
(* Text is a sequence of one-character strings; "\n" separates lines.      *)
(* The regular expressions of the source are matched character by          *)
(* character.  Every pattern of the source alternates between disjoint     *)
(* character classes, so the greedy left-to-right match computed here is   *)
(* the match Python's backtracking engine finds.                           *)
(*                                                                         *)
(* A Python Optional is a sequence: <<>> is None, <<v>> holds v.           *)
(* A float is [m |-> digits, e |-> number of decimals], without trailing   *)
(* decimal zeros, so that 25,00 and 25,0 denote the same value.            *)
(***************************************************************************)
EXTENDS Integers, Sequences, FiniteSets, TLC

\* ------------------------------------------------------------------ bounds
MaxLines == 3
MaxPages == 2
MaxItems == 2
MaxCalls == 3

\* ------------------------------------------------------------------- state
VARIABLES
    pad_year,               \* the build: whether strftime('%Y') pads to 4 digits
    pc,                     \* "idle", "scan" (inside extract_line_items' loop),
                            \* "done" (the call returned), "raised" (it raised)
    op,                     \* the entry point running, or that ran last
    pages,                  \* extract_from_pdf: the text of each page, in order
    text,                   \* the text argument (extract_from_pdf: full_text)
    invoice_data,           \* the record being assembled, then returned
    confidence,             \* the score returned, in hundredths
    lines, i, items,        \* extract_line_items' locals
    current_order_number,
    current_order_date,
    visited,                \* history: one entry per loop iteration of the scan
    earlier                 \* history: the calls this instance has completed, each
                            \* with what it returned, in order

vars == <<pad_year, pc, op, pages, text, invoice_data, confidence, lines, i, items,
          current_order_number, current_order_date, visited, earlier>>

\* -------------------------------------------------------- character classes
DigitSeq == <<"0", "1", "2", "3", "4", "5", "6", "7", "8", "9">>
UpperSeq == <<"A", "B", "C", "D", "E", "F", "G", "H", "I", "J", "K", "L", "M",
              "N", "O", "P", "Q", "R", "S", "T", "U", "V", "W", "X", "Y", "Z">>
LowerSeq == <<"a", "b", "c", "d", "e", "f", "g", "h", "i", "j", "k", "l", "m",
              "n", "o", "p", "q", "r", "s", "t", "u", "v", "w", "x", "y", "z">>
Digit == {DigitSeq[k] : k \in 1..10}
Upper == {UpperSeq[k] : k \in 1..26}
Lower == {LowerSeq[k] : k \in 1..26}
Alpha == Upper \cup Lower
Space == {" ", "\t", "\n"}
NumCh == Digit \cup {".", ","}

\* re.IGNORECASE: both sides are compared in lower case
Fold(c) == IF c \in Upper THEN LowerSeq[CHOOSE k \in 1..26 : UpperSeq[k] = c] ELSE c

DigitVal(c) == (CHOOSE k \in 1..10 : DigitSeq[k] = c) - 1

\* ------------------------------------------------------------ Optional, None
None == <<>>
Some(v) == <<v>>

\* ------------------------------------------------------- regex building blocks
\* the end of the longest run of characters of class C that starts at p
RunEnd(s, p, C) ==
    CHOOSE q \in p..(Len(s) + 1) :
        /\ \A k \in p..(q - 1) : s[k] \in C
        /\ (q = Len(s) + 1 \/ s[q] \notin C)

\* a literal at position p
LitAt(s, p, lit) ==
    /\ p + Len(lit) - 1 <= Len(s)
    /\ \A k \in 1..Len(lit) : s[p + k - 1] = lit[k]

\* a literal at position p under re.IGNORECASE (lit is given in lower case)
LitAtI(s, p, lit) ==
    /\ p + Len(lit) - 1 <= Len(s)
    /\ \A k \in 1..Len(lit) : Fold(s[p + k - 1]) = lit[k]

\* \d{2}\.\d{2}\.\d{4} at position p
DateAt(s, p) ==
    /\ p + 9 <= Len(s)
    /\ \A k \in {0, 1, 3, 4, 6, 7, 8, 9} : s[p + k] \in Digit
    /\ s[p + 2] = "."
    /\ s[p + 5] = "."

Slice(s, a, b) == SubSeq(s, a, b - 1)

\* ------------------------------------------------------------------ str
\* str.strip()
Strip(s) ==
    IF \A k \in 1..Len(s) : s[k] \in Space THEN <<>>
    ELSE LET a == CHOOSE k \in 1..Len(s) :
                      s[k] \notin Space /\ \A h \in 1..(k - 1) : s[h] \in Space
             b == CHOOSE k \in 1..Len(s) :
                      s[k] \notin Space /\ \A h \in (k + 1)..Len(s) : s[h] \in Space
         IN  SubSeq(s, a, b)

\* str.split('\n'): the pieces between the line breaks, always at least one
Split(s) ==
    LET IsBreak(p) == s[p] = "\n"
        breaks == SelectSeq([p \in 1..Len(s) |-> p], IsBreak)
        cuts == <<0>> \o breaks \o <<Len(s) + 1>>
    IN  [k \in 1..(Len(breaks) + 1) |-> SubSeq(s, cuts[k] + 1, cuts[k + 1] - 1)]

\* '\n'.join(ls)
RECURSIVE Join(_)
Join(ls) ==
    IF Len(ls) = 0 THEN <<>>
    ELSE IF Len(ls) = 1 THEN ls[1]
    ELSE ls[1] \o <<"\n">> \o Join(Tail(ls))

\* int() of a digit run
RECURSIVE DigitsToNat(_)
DigitsToNat(ds) ==
    IF Len(ds) = 0 THEN 0
    ELSE 10 * DigitsToNat(SubSeq(ds, 1, Len(ds) - 1)) + DigitVal(ds[Len(ds)])

\* n written with at least w digits, zero padded
RECURSIVE NatToDigits(_, _)
NatToDigits(n, w) ==
    IF n < 10 /\ w <= 1 THEN <<DigitSeq[n + 1]>>
    ELSE Append(NatToDigits(n \div 10, w - 1), DigitSeq[(n % 10) + 1])

\* ------------------------------------------------------------- clean_text
\* re.sub(r'_([a-zA-Z])_', r'\1', line): leftmost non-overlapping matches
RECURSIVE SubUnderscoreLetter(_, _)
SubUnderscoreLetter(s, p) ==
    IF p > Len(s) THEN <<>>
    ELSE IF p + 2 <= Len(s) /\ s[p] = "_" /\ s[p + 1] \in Alpha /\ s[p + 2] = "_"
    THEN <<s[p + 1]>> \o SubUnderscoreLetter(s, p + 3)
    ELSE <<s[p]>> \o SubUnderscoreLetter(s, p + 1)

NotUnderscore(c) == c # "_"

\* the body of clean_text's loop, for one line
clean_line(line) == SelectSeq(SubUnderscoreLetter(line, 1), NotUnderscore)

clean_text(txt) ==
    LET ls == Split(txt)
    IN  Join([k \in 1..Len(ls) |-> clean_line(ls[k])])

\* ------------------------------------------------------------- parse_price
NotDot(c) == c # "."
IsDigit(c) == c \in Digit

\* price_str.replace('.', '').replace(',', '.')
EuropeanToPoint(price_str) ==
    LET a == SelectSeq(price_str, NotDot)
    IN  [k \in 1..Len(a) |-> IF a[k] = "," THEN "." ELSE a[k]]

RECURSIVE Normalize(_, _)
Normalize(m, e) ==
    IF e > 0 /\ m % 10 = 0 THEN Normalize(m \div 10, e - 1) ELSE [m |-> m, e |-> e]

Zero == [m |-> 0, e |-> 0]

\* float(t) for t made of digits and points: ValueError unless t has a digit
\* and at most one point
PyFloat(t) ==
    LET points == {k \in 1..Len(t) : t[k] = "."}
        digits == SelectSeq(t, IsDigit)
    IN  IF Cardinality(points) > 1 \/ Len(digits) = 0
           \/ \E k \in 1..Len(t) : t[k] \notin Digit \cup {"."}
        THEN [raised |-> TRUE, value |-> Zero]
        ELSE LET e == IF points = {} THEN 0
                      ELSE Len(t) - (CHOOSE k \in points : TRUE)
             IN  [raised |-> FALSE, value |-> Normalize(DigitsToNat(digits), e)]

parse_price(price_str) == PyFloat(EuropeanToPoint(price_str))

\* ------------------------------------------------------------------- dates
IsLeap(y) == (y % 4 = 0 /\ y % 100 # 0) \/ y % 400 = 0

DaysInMonth(m, y) ==
    IF m = 2 THEN (IF IsLeap(y) THEN 29 ELSE 28)
    ELSE IF m \in {4, 6, 9, 11} THEN 30 ELSE 31

\* datetime.strptime(date_str, '%d.%m.%Y') for date_str of the shape
\* \d{2}\.\d{2}\.\d{4}: ValueError unless day, month and year make a date
\* (datetime.MINYEAR is 1)
strptime(date_str) ==
    LET d == DigitsToNat(SubSeq(date_str, 1, 2))
        m == DigitsToNat(SubSeq(date_str, 4, 5))
        y == DigitsToNat(SubSeq(date_str, 7, 10))
    IN  IF m \in 1..12 /\ y >= 1 /\ d >= 1 /\ d <= DaysInMonth(m, y)
        THEN [raised |-> FALSE, day |-> d, month |-> m, year |-> y]
        ELSE [raised |-> TRUE, day |-> 0, month |-> 0, year |-> 0]

\* date_obj.strftime('%Y-%m-%d').  %Y is the platform's strftime: the C
\* library pads a year below 1000 to four digits on some builds and not on
\* others (glibc: '999'); pad_year is that property of the build.
strftime(date_obj) ==
    NatToDigits(date_obj.year, IF pad_year THEN 4 ELSE 1) \o <<"-">>
        \o NatToDigits(date_obj.month, 2) \o <<"-">> \o NatToDigits(date_obj.day, 2)

\* the try/except around strptime and strftime, lines 52-56 and 66-71
convert_date(date_str) ==
    LET date_obj == strptime(date_str)
    IN  IF date_obj.raised THEN date_str ELSE strftime(date_obj)

\* ------------------------------------------------- extract_invoice_header
Min(S) == CHOOSE x \in S : \A y \in S : x <= y

\* re.search(r'Number:\s*(\d+)', text, re.IGNORECASE) matches at p
NumberAt(s, p) ==
    /\ LitAtI(s, p, <<"n", "u", "m", "b", "e", "r", ":">>)
    /\ LET q == RunEnd(s, p + 7, Space) IN RunEnd(s, q, Digit) > q

\* re.search(r'Date:\s*(\d{2}\.\d{2}\.\d{4})', text, re.IGNORECASE) matches at p
DateLabelAt(s, p) ==
    /\ LitAtI(s, p, <<"d", "a", "t", "e", ":">>)
    /\ DateAt(s, RunEnd(s, p + 5, Space))

extract_invoice_header(s) ==
    LET np == {p \in 1..Len(s) : NumberAt(s, p)}
        dp == {p \in 1..Len(s) : DateLabelAt(s, p)}
    IN  [invoice_number |->
            IF np = {} THEN None
            ELSE LET q == RunEnd(s, Min(np) + 7, Space)
                 IN  Some(Slice(s, q, RunEnd(s, q, Digit))),
         invoice_date |->
            IF dp = {} THEN None
            ELSE LET q == RunEnd(s, Min(dp) + 5, Space)
                 IN  Some(convert_date(SubSeq(s, q, q + 9)))]

\* ------------------------------------------------------ extract_order_info
\* self.order_pattern = r'^Order\s+(\d+)\s+-\s+(\d{2}\.\d{2}\.\d{4})', matched with
\* re.IGNORECASE.  None, or the pair (order_number, order_date).
extract_order_info(line) ==
    IF ~LitAtI(line, 1, <<"o", "r", "d", "e", "r">>) THEN None
    ELSE LET p1 == RunEnd(line, 6, Space)
             p2 == RunEnd(line, p1, Digit)
             p3 == RunEnd(line, p2, Space)
             p4 == RunEnd(line, p3 + 1, Space)
         IN  IF /\ p1 > 6
                /\ p2 > p1
                /\ p3 > p2
                /\ p3 <= Len(line)
                /\ line[p3] = "-"
                /\ p4 > p3 + 1
                /\ DateAt(line, p4)
             THEN Some(<<Slice(line, p1, p2), convert_date(SubSeq(line, p4, p4 + 9))>>)
             ELSE None

\* ---------------------------------------------------------- line_item_pattern
\* r'^(\d{4,})\s+CA:(\d+)\s+([A-Z]{2})\s+([\d.,]+)\s*([A-Z]+)\s+([\d.,]+)\s+(\d+)\s+([\d.,]+)'
\* None, or the eight groups.
match_line_item(line) ==
    LET a1 == RunEnd(line, 1, Digit)        \* (\d{4,})
        a2 == RunEnd(line, a1, Space)       \* \s+
        a3 == a2 + 3                        \* CA:
        a4 == RunEnd(line, a3, Digit)       \* (\d+)
        a5 == RunEnd(line, a4, Space)       \* \s+
        a6 == a5 + 2                        \* ([A-Z]{2})
        a7 == RunEnd(line, a6, Space)       \* \s+
        a8 == RunEnd(line, a7, NumCh)       \* ([\d.,]+)
        a9 == RunEnd(line, a8, Space)       \* \s*
        a10 == RunEnd(line, a9, Upper)      \* ([A-Z]+)
        a11 == RunEnd(line, a10, Space)     \* \s+
        a12 == RunEnd(line, a11, NumCh)     \* ([\d.,]+)
        a13 == RunEnd(line, a12, Space)     \* \s+
        a14 == RunEnd(line, a13, Digit)     \* (\d+)
        a15 == RunEnd(line, a14, Space)     \* \s+
        a16 == RunEnd(line, a15, NumCh)     \* ([\d.,]+)
    IN  IF /\ a1 >= 5
           /\ a2 > a1
           /\ LitAt(line, a2, <<"C", "A", ":">>)
           /\ a4 > a3
           /\ a5 > a4
           /\ a6 - 1 <= Len(line)
           /\ line[a5] \in Upper
           /\ line[a5 + 1] \in Upper
           /\ a7 > a6
           /\ a8 > a7
           /\ a10 > a9
           /\ a11 > a10
           /\ a12 > a11
           /\ a13 > a12
           /\ a14 > a13
           /\ a15 > a14
           /\ a16 > a15
        THEN Some(<<Slice(line, 1, a1), Slice(line, a3, a4), Slice(line, a5, a6),
                    Slice(line, a7, a8), Slice(line, a9, a10), Slice(line, a11, a12),
                    Slice(line, a13, a14), Slice(line, a15, a16)>>)
        ELSE None

\* --------------------------------------------------- description skipping
\* re.match(r'^\d{4,}\s+CA:', desc_line)
starts_item(desc_line) ==
    LET a1 == RunEnd(desc_line, 1, Digit)
        a2 == RunEnd(desc_line, a1, Space)
    IN  a1 >= 5 /\ a2 > a1 /\ LitAt(desc_line, a2, <<"C", "A", ":">>)

\* re.match(r'^(Order \d+|Your Order:|Delivery \d+|Ship to)', desc_line, re.I)
starts_section(desc_line) ==
    \/ /\ LitAtI(desc_line, 1, <<"o", "r", "d", "e", "r", " ">>)
       /\ 7 <= Len(desc_line)
       /\ desc_line[7] \in Digit
    \/ LitAtI(desc_line, 1, <<"y", "o", "u", "r", " ", "o", "r", "d", "e", "r", ":">>)
    \/ /\ LitAtI(desc_line, 1, <<"d", "e", "l", "i", "v", "e", "r", "y", " ">>)
       /\ 10 <= Len(desc_line)
       /\ desc_line[10] \in Digit
    \/ LitAtI(desc_line, 1, <<"s", "h", "i", "p", " ", "t", "o">>)

\* stops_skip without the break of lines 128-129 at the start of an item line
stops_skip_sections_only(raw_line) ==
    LET desc_line == Strip(raw_line)
    IN  starts_section(desc_line) \/ desc_line = <<>>

\* the three breaks of the inner while loop, lines 127-133
stops_skip(raw_line) ==
    LET desc_line == Strip(raw_line)
    IN  starts_item(desc_line) \/ starts_section(desc_line) \/ desc_line = <<>>

\* skip_description if the inner loop consumed the line it stops at
skip_description_consuming(ls, start) ==
    LET stops == {j \in start..(Len(ls) - 1) : stops_skip(ls[j + 1])}
    IN  IF stops = {} THEN Len(ls) ELSE Min(stops) + 1

\* j when the inner while loop ends (0-based, as in the source): the first
\* j >= start with a stopping line, or len(lines)
skip_description(ls, start) ==
    LET stops == {j \in start..(Len(ls) - 1) : stops_skip(ls[j + 1])}
    IN  IF stops = {} THEN Len(ls) ELSE Min(stops)

\* --------------------------------------------------- extract_total_amount
\* re.search(r'Total amount\s+([\d.,]+)', text, re.IGNORECASE) matches at p
TotalAt(s, p) ==
    /\ LitAtI(s, p, <<"t", "o", "t", "a", "l", " ", "a", "m", "o", "u", "n", "t">>)
    /\ LET q == RunEnd(s, p + 12, Space)
       IN  q > p + 12 /\ RunEnd(s, q, NumCh) > q

\* [raised, value]: parse_price's ValueError is not caught here
extract_total_amount(s) ==
    LET tp == {p \in 1..Len(s) : TotalAt(s, p)}
    IN  IF tp = {} THEN [raised |-> FALSE, value |-> None]
        ELSE LET q == RunEnd(s, Min(tp) + 12, Space)
                 r == parse_price(Slice(s, q, RunEnd(s, q, NumCh)))
             IN  [raised |-> r.raised,
                  value |-> IF r.raised THEN None ELSE Some(r.value)]

\* ---------------------------------------------------- calculate_confidence
\* Python truth of an Optional[str] and of an Optional[float]
TruthyStr(o) == o # None /\ Len(o[1]) > 0
TruthyFloat(o) == o # None /\ o[1].m # 0

required_fields == {"position", "nomenclature", "quantity", "unit", "unit_price",
                    "line_total"}

\* calculate_confidence if each header field carried the whole 40% header weight
\* and the result were returned without min(score, 1.0)
calculate_confidence_uncapped(data) ==
    LET header == (IF TruthyStr(data.invoice_number) THEN 40 ELSE 0)
                  + (IF TruthyStr(data.invoice_date) THEN 40 ELSE 0)
        present == IF Len(data.nomenclature) > 0 THEN 30 ELSE 0
        total == IF TruthyFloat(data.total_amount) THEN 15 ELSE 0
        all_complete == \A k \in 1..Len(data.nomenclature) :
                            required_fields \subseteq DOMAIN data.nomenclature[k]
        complete == IF Len(data.nomenclature) > 0 /\ all_complete THEN 15 ELSE 0
    IN  header + present + total + complete

\* the score in hundredths (0.2 is 20); the order of the additions is the source's
calculate_confidence(data) ==
    LET header == (IF TruthyStr(data.invoice_number) THEN 20 ELSE 0)
                  + (IF TruthyStr(data.invoice_date) THEN 20 ELSE 0)
        present == IF Len(data.nomenclature) > 0 THEN 30 ELSE 0
        total == IF TruthyFloat(data.total_amount) THEN 15 ELSE 0
        all_complete == \A k \in 1..Len(data.nomenclature) :
                            required_fields \subseteq DOMAIN data.nomenclature[k]
        complete == IF Len(data.nomenclature) > 0 /\ all_complete THEN 15 ELSE 0
        score == header + present + total + complete
    IN  IF score < 100 THEN score ELSE 100

\* ------------------------------------------------------------------ inputs
\* ''
L_blank ==
    <<>>

\* 'Order 77 - 01.03.2024'
L_order77 ==
    <<"O", "r", "d", "e", "r", " ", "7", "7", " ", "-", " ", "0", "1", ".", "0", "3",
      ".", "2", "0", "2", "4">>

\* 'ORDER  88 - 02.03.2024'
L_order88 ==
    <<"O", "R", "D", "E", "R", " ", " ", "8", "8", " ", "-", " ", "0", "2", ".", "0",
      "3", ".", "2", "0", "2", "4">>

\* 'order 99 - 31.02.2024'
L_order99 ==
    <<"o", "r", "d", "e", "r", " ", "9", "9", " ", "-", " ", "3", "1", ".", "0", "2",
      ".", "2", "0", "2", "4">>

\* '0001 CA:9988 DE 10,000 PCS 2,50 1 25,00'
L_item1 ==
    <<"0", "0", "0", "1", " ", "C", "A", ":", "9", "9", "8", "8", " ", "D", "E", " ",
      "1", "0", ",", "0", "0", "0", " ", "P", "C", "S", " ", "2", ",", "5", "0", " ",
      "1", " ", "2", "5", ",", "0", "0">>

\* ' 00_02 CA:7 DE 1.234,56KG 1,00 1 1.234,56'
L_item2 ==
    <<" ", "0", "0", "_", "0", "2", " ", "C", "A", ":", "7", " ", "D", "E", " ", "1",
      ".", "2", "3", "4", ",", "5", "6", "K", "G", " ", "1", ",", "0", "0", " ", "1",
      " ", "1", ".", "2", "3", "4", ",", "5", "6">>

\* '0003 CA:5 DE 1,5 PCS 2,50 1 1,2,3'
L_itembad ==
    <<"0", "0", "0", "3", " ", "C", "A", ":", "5", " ", "D", "E", " ", "1", ",", "5",
      " ", "P", "C", "S", " ", "2", ",", "5", "0", " ", "1", " ", "1", ",", "2", ",",
      "3">>

\* '0004 CA: n/a'
L_itemref ==
    <<"0", "0", "0", "4", " ", "C", "A", ":", " ", "n", "/", "a">>

\* 'Hinge _s_teel'
L_desc ==
    <<"H", "i", "n", "g", "e", " ", "_", "s", "_", "t", "e", "e", "l">>

\* 'Delivery note'
L_delivery ==
    <<"D", "e", "l", "i", "v", "e", "r", "y", " ", "n", "o", "t", "e">>

\* 'Ship to plant'
L_shipto ==
    <<"S", "h", "i", "p", " ", "t", "o", " ", "p", "l", "a", "n", "t">>

\* 'Number: 12345'
L_number ==
    <<"N", "u", "m", "b", "e", "r", ":", " ", "1", "2", "3", "4", "5">>

\* 'Date: 01.03.2024'
L_date ==
    <<"D", "a", "t", "e", ":", " ", "0", "1", ".", "0", "3", ".", "2", "0", "2", "4">>

\* 'Total amount 25,00'
L_total ==
    <<"T", "o", "t", "a", "l", " ", "a", "m", "o", "u", "n", "t", " ", "2", "5", ",",
      "0", "0">>

\* 'Total amount 0,00'
L_totalzero ==
    <<"T", "o", "t", "a", "l", " ", "a", "m", "o", "u", "n", "t", " ", "0", ",", "0",
      "0">>

\* 'Total amount 1,2,3'
L_totalbad ==
    <<"T", "o", "t", "a", "l", " ", "a", "m", "o", "u", "n", "t", " ", "1", ",", "2",
      ",", "3">>

\* 'number:'
L_olddate ==
    <<"n", "u", "m", "b", "e", "r", ":">>

\* '42 DATE: 01.03.0999'
L_olddate2 ==
    <<"4", "2", " ", "D", "A", "T", "E", ":", " ", "0", "1", ".", "0", "3", ".", "0",
      "9", "9", "9">>

\* 'Date: 31.02.2024'
L_baddate ==
    <<"D", "a", "t", "e", ":", " ", "3", "1", ".", "0", "2", ".", "2", "0", "2", "4">>

\* the lines a text given to extract_line_items is made of
LineCat == {L_blank, L_order77, L_order88, L_order99, L_item1, L_item2, L_itembad,
            L_itemref, L_desc, L_delivery, L_shipto}

\* all sequences over S of length lo..hi
SeqsOf(S, lo, hi) == UNION {[1..n -> S] : n \in lo..hi}

ScanTexts == {Join(ls) : ls \in SeqsOf(LineCat, 1, MaxLines)}

\* the page texts a document is made of
P_blank == <<>>
P_full == Join(<<L_number, L_date, L_order77, L_item1, L_total>>)
P_items == Join(<<L_item1, L_totalzero>>)
P_badtotal == Join(<<L_number, L_item1, L_totalbad>>)
P_olddate == Join(<<L_olddate, L_olddate2>>)
P_baddate == Join(<<L_baddate, L_itembad>>)

PageCat == {P_blank, P_full, P_items, P_badtotal, P_olddate, P_baddate}

PageSeqs == SeqsOf(PageCat, 0, MaxPages)

BlobTexts == {Join(ps) : ps \in SeqsOf(PageCat, 1, MaxPages)}

\* the records given to calculate_confidence directly
CompleteItem ==
    [position |-> <<"0", "0", "0", "1">>, nomenclature |-> <<"9">>,
     quantity |-> [m |-> 10, e |-> 0], unit |-> <<"P", "C", "S">>,
     unit_price |-> [m |-> 25, e |-> 1], line_total |-> [m |-> 25, e |-> 0],
     order_number |-> None, order_date |-> None]

PartialItem == [position |-> <<"0", "0", "0", "2">>, nomenclature |-> <<"9">>]

ScoredRecords ==
    [invoice_number : {None, Some(<<"1", "2">>)},
     invoice_date : {None, Some(<<"2", "0", "2", "4", "-", "0", "3", "-", "0", "1">>)},
     nomenclature : SeqsOf({CompleteItem, PartialItem}, 0, MaxItems),
     total_amount : {None, Some(Zero), Some([m |-> 25, e |-> 0])}]

\* ------------------------------------------------------------ state machine
\* EmptyRecord if total_amount started as 0.0 instead of None
EmptyRecord_zero_total ==
    [invoice_number |-> None, invoice_date |-> None, nomenclature |-> <<>>,
     total_amount |-> Some(Zero)]

\* invoice_data as extract_from_pdf and extract_from_text create it
EmptyRecord ==
    [invoice_number |-> None, invoice_date |-> None, nomenclature |-> <<>>,
     total_amount |-> None]

\* the call made: the entry point and its argument
Init ==
    /\ pad_year \in BOOLEAN
    /\ pc = "idle"
    /\ \/ op = "extract_line_items" /\ text \in ScanTexts /\ pages = <<>>
          /\ invoice_data = EmptyRecord
       \/ op = "extract_from_text" /\ text \in BlobTexts /\ pages = <<>>
          /\ invoice_data = EmptyRecord
       \/ op = "extract_from_pdf" /\ text = <<>> /\ pages \in PageSeqs
          /\ invoice_data = EmptyRecord
       \/ op = "calculate_confidence" /\ text = <<>> /\ pages = <<>>
          /\ invoice_data \in ScoredRecords
    /\ confidence = 0
    /\ lines = <<>>
    /\ i = 0
    /\ items = <<>>
    /\ current_order_number = None
    /\ current_order_date = None
    /\ visited = <<>>
    /\ earlier = <<>>

\* EnterScan if the order context were an attribute of the instance, set in
\* __init__ beside the two patterns, instead of a local of extract_line_items
EnterScan_keeping_context(t) ==
    /\ lines' = Split(clean_text(t))
    /\ i' = 0
    /\ items' = <<>>
    /\ visited' = <<>>
    /\ UNCHANGED <<current_order_number, current_order_date>>

\* extract_line_items, lines 76-84: the state when the while loop is entered
EnterScan(t) ==
    /\ lines' = Split(clean_text(t))
    /\ i' = 0
    /\ items' = <<>>
    /\ current_order_number' = None
    /\ current_order_date' = None
    /\ visited' = <<>>

NoScan == UNCHANGED <<lines, i, items, current_order_number, current_order_date, visited>>

\* extract_line_items(text) is called
Call_extract_line_items ==
    /\ pc = "idle"
    /\ op = "extract_line_items"
    /\ pc' = "scan"
    /\ EnterScan(text)
    /\ UNCHANGED earlier
    /\ UNCHANGED <<pad_year, op, pages, text, invoice_data, confidence>>

\* extract_from_text(text) is called, lines 237-249: the header, then the scan
Call_extract_from_text ==
    /\ pc = "idle"
    /\ op = "extract_from_text"
    /\ pc' = "scan"
    /\ invoice_data' =
           [EmptyRecord EXCEPT
               !.invoice_number = extract_invoice_header(text).invoice_number,
               !.invoice_date = extract_invoice_header(text).invoice_date]
    /\ EnterScan(text)
    /\ UNCHANGED earlier
    /\ UNCHANGED <<pad_year, op, pages, text, confidence>>

IsText(page_text) == Len(page_text) > 0

\* lines 205-208: the texts of the pages that have text
all_text(ps) == SelectSeq(ps, IsText)

\* extract_from_pdf is called, lines 193-221
Call_extract_from_pdf ==
    /\ pc = "idle"
    /\ op = "extract_from_pdf"
    /\ IF all_text(pages) = <<>>
       THEN /\ pc' = "done"
            /\ confidence' = 0
            /\ invoice_data' = EmptyRecord
            /\ UNCHANGED text
            /\ NoScan
       ELSE /\ pc' = "scan"
            /\ text' = Join(all_text(pages))
            /\ invoice_data' =
                   [EmptyRecord EXCEPT
                       !.invoice_number =
                           extract_invoice_header(all_text(pages)[1]).invoice_number,
                       !.invoice_date =
                           extract_invoice_header(all_text(pages)[1]).invoice_date]
            /\ EnterScan(Join(all_text(pages)))
            /\ UNCHANGED confidence
    /\ UNCHANGED earlier
    /\ UNCHANGED <<pad_year, op, pages>>

\* calculate_confidence(invoice_data) is called
Call_calculate_confidence ==
    /\ pc = "idle"
    /\ op = "calculate_confidence"
    /\ pc' = "done"
    /\ confidence' = calculate_confidence(invoice_data)
    /\ NoScan
    /\ UNCHANGED earlier
    /\ UNCHANGED <<pad_year, op, pages, text, invoice_data>>

\* the line the loop iteration looks at, line 86
line == Strip(lines[i + 1])

InLoop == pc = "scan" /\ i < Len(lines)

\* OrderStep if the emitted items referred to the order context instead of
\* holding a copy of it
OrderStep_retroactive ==
    /\ InLoop
    /\ extract_order_info(line) # None
    /\ current_order_number' = Some(extract_order_info(line)[1][1])
    /\ current_order_date' = Some(extract_order_info(line)[1][2])
    /\ items' = [k \in 1..Len(items) |->
                    [items[k] EXCEPT
                        !.order_number = Some(extract_order_info(line)[1][1]),
                        !.order_date = Some(extract_order_info(line)[1][2])]]
    /\ i' = i + 1
    /\ visited' = Append(visited, [at |-> i, kind |-> "order"])
    /\ UNCHANGED earlier
    /\ UNCHANGED <<pad_year, pc, op, pages, text, invoice_data, confidence, lines>>

\* lines 89-93: the line is an order line
OrderStep ==
    /\ InLoop
    /\ extract_order_info(line) # None
    /\ current_order_number' = Some(extract_order_info(line)[1][1])
    /\ current_order_date' = Some(extract_order_info(line)[1][2])
    /\ i' = i + 1
    /\ visited' = Append(visited, [at |-> i, kind |-> "order"])
    /\ UNCHANGED earlier
    /\ UNCHANGED <<pad_year, pc, op, pages, text, invoice_data, confidence, lines,
                   items>>

\* the item of lines 111-120, from the groups of the match and the order context
build_item(g, order_number, order_date) ==
    [position |-> g[1],
     nomenclature |-> g[2],
     quantity |-> parse_price(g[4]).value,
     unit |-> g[5],
     unit_price |-> parse_price(g[6]).value,
     line_total |-> parse_price(g[8]).value,
     order_number |-> order_number,
     order_date |-> order_date]

make_item(g) == build_item(g, current_order_number, current_order_date)

\* whether lines 107-109 raise ValueError
parse_fails(g) ==
    parse_price(g[4]).raised \/ parse_price(g[6]).raised \/ parse_price(g[8]).raised

\* ItemStep without the i += 1 of line 141
ItemStep_no_advance ==
    /\ InLoop
    /\ extract_order_info(line) = None
    /\ match_line_item(line) # None
    /\ ~parse_fails(match_line_item(line)[1])
    /\ items' = Append(items, make_item(match_line_item(line)[1]))
    /\ i' = skip_description(lines, i + 1) - 1
    /\ visited' = Append(visited, [at |-> i, kind |-> "item"])
    /\ UNCHANGED earlier
    /\ UNCHANGED <<pad_year, pc, op, pages, text, invoice_data, confidence, lines,
                   current_order_number, current_order_date>>

\* lines 94-136, 141: the line is an item line and its numbers convert
ItemStep ==
    /\ InLoop
    /\ extract_order_info(line) = None
    /\ match_line_item(line) # None
    /\ ~parse_fails(match_line_item(line)[1])
    /\ items' = Append(items, make_item(match_line_item(line)[1]))
    /\ i' = (skip_description(lines, i + 1) - 1) + 1
    /\ visited' = Append(visited, [at |-> i, kind |-> "item"])
    /\ UNCHANGED earlier
    /\ UNCHANGED <<pad_year, pc, op, pages, text, invoice_data, confidence, lines,
                   current_order_number, current_order_date>>

\* FailedItemStep if the description skip of lines 125-136 also ran for a
\* dropped item
FailedItemStep_skipping ==
    /\ InLoop
    /\ extract_order_info(line) = None
    /\ match_line_item(line) # None
    /\ parse_fails(match_line_item(line)[1])
    /\ i' = skip_description(lines, i + 1)
    /\ visited' = Append(visited, [at |-> i, kind |-> "failed"])
    /\ UNCHANGED earlier
    /\ UNCHANGED <<pad_year, pc, op, pages, text, invoice_data, confidence, lines,
                   items, current_order_number, current_order_date>>

\* lines 94-109, 138-141: the line is an item line and a number does not convert
FailedItemStep ==
    /\ InLoop
    /\ extract_order_info(line) = None
    /\ match_line_item(line) # None
    /\ parse_fails(match_line_item(line)[1])
    /\ i' = i + 1
    /\ visited' = Append(visited, [at |-> i, kind |-> "failed"])
    /\ UNCHANGED earlier
    /\ UNCHANGED <<pad_year, pc, op, pages, text, invoice_data, confidence, lines,
                   items, current_order_number, current_order_date>>

\* lines 94-96, 141: neither pattern matches
NoMatchStep ==
    /\ InLoop
    /\ extract_order_info(line) = None
    /\ match_line_item(line) = None
    /\ i' = i + 1
    /\ visited' = Append(visited, [at |-> i, kind |-> "nomatch"])
    /\ UNCHANGED earlier
    /\ UNCHANGED <<pad_year, pc, op, pages, text, invoice_data, confidence, lines,
                   items, current_order_number, current_order_date>>

LoopDone == pc = "scan" /\ i >= Len(lines)

\* the while loop of lines 85-141 run to its end from cursor k, as a function
RECURSIVE scan_from(_, _, _, _, _)
scan_from(ls, k, order_number, order_date, acc) ==
    IF k >= Len(ls) THEN acc
    ELSE LET l == Strip(ls[k + 1])
             o == extract_order_info(l)
             m == match_line_item(l)
         IN  IF o # None
             THEN scan_from(ls, k + 1, Some(o[1][1]), Some(o[1][2]), acc)
             ELSE IF m # None /\ ~parse_fails(m[1])
             THEN scan_from(ls, skip_description(ls, k + 1), order_number, order_date,
                            Append(acc, build_item(m[1], order_number, order_date)))
             ELSE scan_from(ls, k + 1, order_number, order_date, acc)

\* extract_line_items as a function of its argument
extract_line_items(txt) == scan_from(Split(clean_text(txt)), 0, None, None, <<>>)

\* line 143, for a direct call of extract_line_items
Return_extract_line_items ==
    /\ LoopDone
    /\ op = "extract_line_items"
    /\ pc' = "done"
    /\ UNCHANGED earlier
    /\ UNCHANGED <<pad_year, op, pages, text, invoice_data, confidence, lines, i,
                   items, current_order_number, current_order_date, visited>>

\* extract_from_text, lines 249-257, once the scan has returned: the exception
\* of extract_total_amount leaves the function
Finish_extract_from_text ==
    /\ LoopDone
    /\ op = "extract_from_text"
    /\ IF extract_total_amount(text).raised
       THEN /\ pc' = "raised"
            /\ invoice_data' = [invoice_data EXCEPT !.nomenclature = items]
            /\ UNCHANGED confidence
       ELSE /\ pc' = "done"
            /\ invoice_data' =
                   [invoice_data EXCEPT
                       !.nomenclature = items,
                       !.total_amount = extract_total_amount(text).value]
            /\ confidence' =
                   calculate_confidence(
                       [invoice_data EXCEPT
                           !.nomenclature = items,
                           !.total_amount = extract_total_amount(text).value])
    /\ UNCHANGED earlier
    /\ UNCHANGED <<pad_year, op, pages, text, lines, i, items, current_order_number,
                   current_order_date, visited>>

\* extract_from_pdf, lines 221-233, once the scan has returned: the exception of
\* extract_total_amount is caught and the record assembled so far is returned
\* with 0.0
Finish_extract_from_pdf ==
    /\ LoopDone
    /\ op = "extract_from_pdf"
    /\ pc' = "done"
    /\ IF extract_total_amount(text).raised
       THEN /\ invoice_data' = [invoice_data EXCEPT !.nomenclature = items]
            /\ confidence' = 0
       ELSE /\ invoice_data' =
                   [invoice_data EXCEPT
                       !.nomenclature = items,
                       !.total_amount = extract_total_amount(text).value]
            /\ confidence' =
                   calculate_confidence(
                       [invoice_data EXCEPT
                           !.nomenclature = items,
                           !.total_amount = extract_total_amount(text).value])
    /\ UNCHANGED earlier
    /\ UNCHANGED <<pad_year, op, pages, text, lines, i, items, current_order_number,
                   current_order_date, visited>>

Next ==
    \/ Call_extract_line_items
    \/ Call_extract_from_text
    \/ Call_extract_from_pdf
    \/ Call_calculate_confidence
    \/ OrderStep
    \/ ItemStep
    \/ FailedItemStep
    \/ NoMatchStep
    \/ Return_extract_line_items
    \/ Finish_extract_from_text
    \/ Finish_extract_from_pdf

Spec == Init /\ [][Next]_vars

\* ------------------------------------------- one instance, several calls
\* the call that is running or has returned: the entry point and its argument
CurrentCall ==
    [op |-> op,
     text |-> IF op = "extract_from_pdf" THEN <<>> ELSE text,
     pages |-> pages,
     data |-> IF op = "calculate_confidence" THEN invoice_data ELSE EmptyRecord]

\* what the call gave its caller: an exception, or the value of its return
\* statement (lines 143, 184, 211, 229, 233, 257)
CurrentResult ==
    [raised |-> pc = "raised",
     record |-> IF pc = "done" /\ op \in {"extract_from_text", "extract_from_pdf"}
                THEN invoice_data ELSE EmptyRecord,
     score |-> IF pc = "done" /\ op # "extract_line_items" THEN confidence ELSE 0,
     items |-> IF pc = "done" /\ op = "extract_line_items" THEN items ELSE <<>>]

\* the calls made on the one instance
RepeatCalls ==
    {[op |-> "extract_line_items", text |-> Join(<<L_order77, L_item1>>),
      pages |-> <<>>, data |-> EmptyRecord],
     [op |-> "extract_line_items", text |-> Join(<<L_item1, L_desc>>),
      pages |-> <<>>, data |-> EmptyRecord],
     [op |-> "extract_from_text", text |-> P_full, pages |-> <<>>,
      data |-> EmptyRecord],
     [op |-> "extract_from_text", text |-> P_items, pages |-> <<>>,
      data |-> EmptyRecord],
     [op |-> "extract_from_text", text |-> P_badtotal, pages |-> <<>>,
      data |-> EmptyRecord],
     [op |-> "extract_from_text", text |-> P_baddate, pages |-> <<>>,
      data |-> EmptyRecord],
     [op |-> "extract_from_pdf", text |-> <<>>, pages |-> <<P_blank>>,
      data |-> EmptyRecord],
     [op |-> "extract_from_pdf", text |-> <<>>, pages |-> <<P_blank, P_items>>,
      data |-> EmptyRecord],
     [op |-> "extract_from_pdf", text |-> <<>>, pages |-> <<P_badtotal>>,
      data |-> EmptyRecord],
     [op |-> "calculate_confidence", text |-> <<>>, pages |-> <<>>,
      data |-> [EmptyRecord EXCEPT !.invoice_number = Some(<<"1", "2">>),
                                   !.nomenclature = <<PartialItem>>]]}

\* a new instance and its first call
InitRepeat ==
    /\ pad_year \in BOOLEAN
    /\ pc = "idle"
    /\ \E c \in RepeatCalls :
           op = c.op /\ text = c.text /\ pages = c.pages /\ invoice_data = c.data
    /\ confidence = 0
    /\ lines = <<>>
    /\ i = 0
    /\ items = <<>>
    /\ current_order_number = None
    /\ current_order_date = None
    /\ visited = <<>>
    /\ earlier = <<>>

\* the caller takes the result and calls the same instance again, as the loop
\* over the uploaded files does; the locals of the call that returned are kept
\* as they were, so that a call reading them would be seen
NextCall ==
    /\ pc \in {"done", "raised"}
    /\ Len(earlier) < MaxCalls - 1
    /\ earlier' = Append(earlier, [call |-> CurrentCall, result |-> CurrentResult])
    /\ \E c \in RepeatCalls :
           op' = c.op /\ text' = c.text /\ pages' = c.pages /\ invoice_data' = c.data
    /\ pc' = "idle"
    /\ UNCHANGED <<pad_year, confidence, lines, i, items, current_order_number,
                   current_order_date, visited>>

NextRepeat ==
    \/ Call_extract_line_items
    \/ Call_extract_from_text
    \/ Call_extract_from_pdf
    \/ Call_calculate_confidence
    \/ OrderStep
    \/ ItemStep
    \/ FailedItemStep
    \/ NoMatchStep
    \/ Return_extract_line_items
    \/ Finish_extract_from_text
    \/ Finish_extract_from_pdf
    \/ NextCall

SpecRepeat == InitRepeat /\ [][NextRepeat]_vars

\* ================================================================= claims
Max(S) == CHOOSE x \in S : \A y \in S : x >= y

IsItemVisit(v) == v.kind = "item"

\* the loop iterations that emitted an item, in order
ItemVisits == SelectSeq(visited, IsItemVisit)

\* the line index tested after loop iteration k: the next iteration's, or the
\* cursor when iteration k is the last so far
NextTested(k) == IF k < Len(visited) THEN visited[k + 1].at ELSE i

\* ----------------------------------------------------------------- C1
C1_Markers(at) == {j \in 0..(at - 1) : extract_order_info(Strip(lines[j + 1])) # None}

C1_Expected(at) ==
    IF C1_Markers(at) = {} THEN <<None, None>>
    ELSE LET o == extract_order_info(Strip(lines[Max(C1_Markers(at)) + 1]))[1]
         IN  <<Some(o[1]), Some(o[2])>>

\* C1: every emitted item carries the order number and date of the nearest
\* preceding line of the order-marker shape, or (None, None) when there is none,
\* wherever the marker line stands.
C1_OrderScoping ==
    \A k \in 1..Len(ItemVisits) :
        k <= Len(items) =>
            <<items[k].order_number, items[k].order_date>>
                = C1_Expected(ItemVisits[k].at)

\* ----------------------------------------------------------------- C2
C2_First(at, Stop(_)) ==
    LET c == {j \in (at + 1)..(Len(lines) - 1) : Stop(lines[j + 1])}
    IN  IF c = {} THEN Len(lines) ELSE Min(c)

\* the stopping lines as the claim names them
C2_ClaimedStop(raw) ==
    LET s == Strip(raw)
    IN  \/ s = <<>>
        \/ match_line_item(s) # None
        \/ LitAtI(s, 1, <<"o", "r", "d", "e", "r">>)
        \/ LitAtI(s, 1, <<"y", "o", "u", "r", " ", "o", "r", "d", "e", "r", ":">>)
        \/ LitAtI(s, 1, <<"d", "e", "l", "i", "v", "e", "r", "y">>)
        \/ LitAtI(s, 1, <<"s", "h", "i", "p", " ", "t", "o">>)

\* C2 as stated: after an item is emitted the next line tested is the first
\* later line that is empty, matches the item pattern, or begins with "Order",
\* "Your Order:", "Delivery" or "Ship to"; the end of the text if there is none.
C2_StopAsClaimed ==
    \A k \in 1..Len(visited) :
        visited[k].kind = "item" =>
            NextTested(k) = C2_First(visited[k].at, C2_ClaimedStop)

C2_DigitAt(s, p) == p <= Len(s) /\ s[p] \in Digit

\* the stopping lines of the amended claim
C2_AmendedStop(raw) ==
    LET s == Strip(raw)
        d == RunEnd(s, 1, Digit)
    IN  \/ s = <<>>
        \/ /\ d - 1 >= 4
           /\ RunEnd(s, d, Space) > d
           /\ LitAt(s, RunEnd(s, d, Space), <<"C", "A", ":">>)
        \/ LitAtI(s, 1, <<"o", "r", "d", "e", "r", " ">>) /\ C2_DigitAt(s, 7)
        \/ LitAtI(s, 1, <<"y", "o", "u", "r", " ", "o", "r", "d", "e", "r", ":">>)
        \/ LitAtI(s, 1, <<"d", "e", "l", "i", "v", "e", "r", "y", " ">>) /\ C2_DigitAt(s, 10)
        \/ LitAtI(s, 1, <<"s", "h", "i", "p", " ", "t", "o">>)

\* C2 amended: after an item is emitted the next line tested is the first later
\* line that, trimmed, is empty, or starts with four or more digits, whitespace
\* and "CA:", or begins (case-insensitively) with "Order " and a digit,
\* "Your Order:", "Delivery " and a digit, or "Ship to"; the end of the text if
\* there is none.  The stopping line is not consumed: it is the next line tested.
C2_StopAmended ==
    \A k \in 1..Len(visited) :
        visited[k].kind = "item" =>
            NextTested(k) = C2_First(visited[k].at, C2_AmendedStop)

\* an item was emitted, description lines were skipped, and the stopping line
\* was then tested as an order line
C2_Witness ==
    \E k \in 1..(Len(visited) - 1) :
        /\ visited[k].kind = "item"
        /\ visited[k + 1].at > visited[k].at + 1
        /\ visited[k + 1].kind = "order"

\* ----------------------------------------------------------------- C3
\* the loop is at a line that matches the item pattern and has a numeric field
\* that does not convert
C3_FailedCase ==
    /\ InLoop
    /\ match_line_item(line) # None
    /\ \E g \in {4, 6, 8} : parse_price(match_line_item(line)[1][g]).raised

C3_ValidItemLine(raw) ==
    /\ match_line_item(Strip(raw)) # None
    /\ \A g \in {4, 6, 8} : ~parse_price(match_line_item(Strip(raw))[1][g]).raised

\* once the scan is over, every valid item line after a dropped one was emitted
C3_LaterEmitted ==
    (pc \in {"scan", "done", "raised"} /\ i >= Len(lines)) =>
        \A f \in 1..Len(visited) :
            visited[f].kind = "failed" =>
                \A j \in (visited[f].at + 1)..(Len(lines) - 1) :
                    C3_ValidItemLine(lines[j + 1]) =>
                        \E k \in 1..Len(visited) :
                            visited[k].kind = "item" /\ visited[k].at = j

\* C3: an item line with a numeric field that does not convert emits no item,
\* leaves the items and the order context unchanged, advances the cursor by
\* exactly one line, does not raise, and every later valid item line is emitted.
C3_DroppedItem ==
    /\ [][C3_FailedCase =>
            /\ items' = items
            /\ current_order_number' = current_order_number
            /\ current_order_date' = current_order_date
            /\ i' = i + 1
            /\ pc' = "scan"]_vars
    /\ [](pc # "raised" \/ op # "extract_line_items")
    /\ []C3_LaterEmitted

\* an item was dropped under an order context, the line after it was tested in
\* its turn, and a later valid item line was emitted
C3_Witness ==
    /\ pc = "done"
    /\ \E f \in 1..(Len(visited) - 1) :
        /\ visited[f].kind = "failed"
        /\ visited[f + 1].at = visited[f].at + 1
        /\ visited[f + 1].kind = "item"
    /\ Len(items) = 1
    /\ items[1].order_number # None

\* ----------------------------------------------------------------- C4
\* C4: the cursor strictly increases on every loop iteration, so no line is
\* tested twice, no line yields more than one item, and the scan ends after at
\* most as many iterations as there are lines.
C4_MonotonicCursor ==
    /\ \A k \in 1..Len(visited) : NextTested(k) > visited[k].at
    /\ \A k \in 1..Len(visited) : \A h \in 1..Len(visited) :
           k # h => visited[k].at # visited[h].at
    /\ Len(items) = Len(ItemVisits)
    /\ Len(visited) <= Len(lines)
    /\ i <= Len(lines)

\* a finished scan of three lines with an order step, a failed item step and an
\* item step
C4_Witness ==
    /\ pc = "done"
    /\ Len(visited) = 3
    /\ {visited[k].kind : k \in 1..3} = {"order", "failed", "item"}

\* ----------------------------------------------------------------- C5
Extracting == op \in {"extract_from_text", "extract_from_pdf"}

\* C5: extract and extract_from_text return a (record, score) pair without
\* raising for every text, and a returned record with a set invoice number or
\* a non-empty item list does not carry score 0.0.
C5_Propagation ==
    /\ pc # "raised"
    /\ (pc = "done" /\ Extracting
          /\ (invoice_data.invoice_number # None \/ Len(invoice_data.nomenclature) > 0))
       => confidence # 0

\* ----------------------------------------------------------------- C6
C6_Weight(cond, w) == IF cond THEN w ELSE 0

C6_AllComplete(data) ==
    \A k \in 1..Len(data.nomenclature) :
        {"position", "nomenclature", "quantity", "unit", "unit_price", "line_total"}
            \subseteq DOMAIN data.nomenclature[k]

\* the score of the claim, in hundredths; a field is set when it is not None
C6_ClaimedScore(data) ==
    LET sum == C6_Weight(data.invoice_number # None, 20)
               + C6_Weight(data.invoice_date # None, 20)
               + C6_Weight(Len(data.nomenclature) > 0, 30)
               + C6_Weight(data.total_amount # None, 15)
               + C6_Weight(Len(data.nomenclature) > 0 /\ C6_AllComplete(data), 15)
    IN  IF sum > 100 THEN 100 ELSE sum

\* C6: the score of every record is min(1.0, 0.2 [number set] + 0.2 [date set]
\* + 0.3 [items] + 0.15 [total set] + 0.15 [items, all complete]), a field
\* counting as set whatever value it holds.
C6_ScoreFormula ==
    (pc = "done" /\ op \in {"calculate_confidence", "extract_from_text"})
        => confidence = C6_ClaimedScore(invoice_data)

\* ----------------------------------------------------------------- C7
\* C7: extract takes invoice_number and invoice_date from the first page's text
\* alone, also when that text is empty, and computes items and total from all
\* pages' texts joined by a line break in page order.
C7_FirstPageHeader ==
    (pc = "done" /\ op = "extract_from_pdf" /\ Len(pages) > 0) =>
        /\ invoice_data.invoice_number = extract_invoice_header(pages[1]).invoice_number
        /\ invoice_data.invoice_date = extract_invoice_header(pages[1]).invoice_date
        /\ invoice_data.nomenclature = extract_line_items(Join(pages))
        /\ ~extract_total_amount(Join(pages)).raised =>
               invoice_data.total_amount = extract_total_amount(Join(pages)).value

\* ----------------------------------------------------------------- C8
\* C8: when the page sequence is empty or every page's text is empty, extract
\* returns the record with number, date and total unset and no items, with
\* score 0.0, and does not raise.
C8_NothingExtractable ==
    /\ op = "extract_from_pdf" => pc # "raised"
    /\ (pc = "done" /\ op = "extract_from_pdf" /\ \A k \in 1..Len(pages) : pages[k] = <<>>)
       => /\ invoice_data.invoice_number = None
          /\ invoice_data.invoice_date = None
          /\ invoice_data.total_amount = None
          /\ invoice_data.nomenclature = <<>>
          /\ confidence = 0

\* extract returned for two pages without text
C8_Witness ==
    /\ pc = "done"
    /\ op = "extract_from_pdf"
    /\ Len(pages) = 2
    /\ \A k \in 1..Len(pages) : pages[k] = <<>>

\* ----------------------------------------------------------------- C9
\* the items emitted so far, unchanged, begin the items after the step
C9_Prefix ==
    /\ Len(items') >= Len(items)
    /\ SubSeq(items', 1, Len(items)) = items

\* item k comes from the k-th line that yielded an item, and those lines are in
\* the order of the text
C9_SourceOrder ==
    /\ \A k \in 1..Len(items) :
           /\ k <= Len(ItemVisits)
           /\ items[k].position
                  = match_line_item(Strip(lines[ItemVisits[k].at + 1]))[1][1]
    /\ \A k \in 1..(Len(ItemVisits) - 1) : ItemVisits[k].at < ItemVisits[k + 1].at

\* C9: at every step of the scan the items emitted so far are a prefix of the
\* result: no later step changes, removes, reorders or merges an emitted item;
\* items are in the order of their source lines and identical item lines yield
\* one item each.
C9_EmittedItemsFixed ==
    /\ [][C9_Prefix]_vars
    /\ []C9_SourceOrder
    /\ [](pc = "done" /\ op \in {"extract_from_text", "extract_from_pdf"}
            => invoice_data.nomenclature = items)

\* two identical item lines with an order line between them gave two items,
\* the first without an order, the second with it
C9_Witness ==
    /\ pc = "done"
    /\ Len(items) = 2
    /\ Len(lines) = 3
    /\ lines[1] = lines[3]
    /\ items[1].position = items[2].position
    /\ items[1].order_number = None
    /\ items[2].order_number # None

\* ----------------------------------------------------------------- C10
\* dd.mm.yyyy names a day of the calendar
C10_ValidDate(d) ==
    LET dd == DigitsToNat(SubSeq(d, 1, 2))
        mm == DigitsToNat(SubSeq(d, 4, 5))
        yyyy == DigitsToNat(SubSeq(d, 7, 10))
    IN  mm \in 1..12 /\ yyyy >= 1 /\ dd \in 1..DaysInMonth(mm, yyyy)

\* YYYY-MM-DD for a valid date, the matched string itself otherwise
C10_Expected(d) ==
    IF C10_ValidDate(d)
    THEN SubSeq(d, 7, 10) \o <<"-">> \o SubSeq(d, 4, 5) \o <<"-">> \o SubSeq(d, 1, 2)
    ELSE d

\* the text the header is read from
C10_HeaderText == IF op = "extract_from_text" THEN text ELSE all_text(pages)[1]

C10_HeaderDates == {p \in 1..Len(C10_HeaderText) : DateLabelAt(C10_HeaderText, p)}

C10_HeaderRaw ==
    LET q == RunEnd(C10_HeaderText, Min(C10_HeaderDates) + 5, Space)
    IN  SubSeq(C10_HeaderText, q, q + 9)

\* the digit run and the date of an order line
C10_OrderRaw(s) ==
    LET p1 == RunEnd(s, 6, Space)
        p2 == RunEnd(s, p1, Digit)
        p4 == RunEnd(s, RunEnd(s, p2, Space) + 1, Space)
    IN  <<Slice(s, p1, p2), SubSeq(s, p4, p4 + 9)>>

\* C10: the header date and the date of an order line are output as YYYY-MM-DD
\* when the matched DD.MM.YYYY string is a valid calendar date and as the matched
\* string when it is not; the date is never dropped, nothing is raised, and an
\* order line's number becomes the context either way.
C10_DateConversion ==
    /\ (Extracting /\ pc \in {"scan", "done", "raised"} /\ Len(lines) > 0
          /\ C10_HeaderDates # {})
       => invoice_data.invoice_date = Some(C10_Expected(C10_HeaderRaw))
    /\ (Len(visited) > 0 /\ visited[Len(visited)].kind = "order")
       => LET raw == C10_OrderRaw(Strip(lines[visited[Len(visited)].at + 1]))
          IN  /\ current_order_number = Some(raw[1])
              /\ current_order_date = Some(C10_Expected(raw[2]))

\* C11: extraction is a function of its input only: a call on an input that an
\* earlier call on the same instance had, with any other calls in between,
\* gives the result the earlier call gave (the same record and score, the same
\* items, or the same exception), and the scan of every call starts from line
\* 0 with no item and no order context, whatever the calls before it left.
C11_Idempotence ==
    /\ pc \in {"done", "raised"} =>
           \A k \in 1..Len(earlier) :
               earlier[k].call = CurrentCall => earlier[k].result = CurrentResult
    /\ (pc = "scan" /\ visited = <<>>) =>
           /\ i = 0
           /\ items = <<>>
           /\ current_order_number = None
           /\ current_order_date = None

\* the third call repeats the first; the call between them scanned another
\* document and left an order context and an item behind, and the repeated
\* call emits an item that has no order
C11_Witness ==
    /\ pc = "done"
    /\ Len(earlier) = 2
    /\ earlier[1].call = CurrentCall
    /\ earlier[2].call # CurrentCall
    /\ earlier[2].call.op = "extract_line_items"
    /\ Len(earlier[2].result.items) > 0
    /\ earlier[2].result.items[1].order_number # None
    /\ op = "extract_from_text"
    /\ Len(invoice_data.nomenclature) > 0
    /\ invoice_data.nomenclature[1].order_number = None
    /\ current_order_number = None

\* C12: the confidence score s of every record satisfies 0.0 <= s <= 1.0 (in
\* hundredths, 0 <= s <= 100): the score calculate_confidence gives to a record
\* passed to it directly, and the score extract_from_pdf and extract_from_text
\* return with their record.
C12_ScoreBounds ==
    /\ confidence \in 0..100
    /\ (pc = "done" /\ op = "calculate_confidence")
          => /\ confidence = calculate_confidence(invoice_data)
             /\ calculate_confidence(invoice_data) \in 0..100
    /\ (pc = "done" /\ Extracting /\ confidence # 0)
          => confidence = calculate_confidence(invoice_data)

\* every check of calculate_confidence has added its weight: the record of an
\* extraction scores the maximum
C12_Witness ==
    /\ pc = "done"
    /\ Extracting
    /\ TruthyStr(invoice_data.invoice_number)
    /\ TruthyStr(invoice_data.invoice_date)
    /\ Len(invoice_data.nomenclature) > 0
    /\ TruthyFloat(invoice_data.total_amount)
    /\ confidence = 100

\* the line, trimmed, matches the item pattern and its three numeric fields
\* convert; a line that does not start with a digit cannot match
C13_IsItemLine(raw) ==
    LET l == Strip(raw)
    IN  /\ Len(l) > 0
        /\ l[1] \in Digit
        /\ match_line_item(l) # None
        /\ ~parse_fails(match_line_item(l)[1])

\* the 0-based indices of the lines that, normalized and trimmed, match the item
\* pattern with three convertible numeric fields
C13_ItemLines == {j \in 0..(Len(lines) - 1) : C13_IsItemLine(lines[j + 1])}

\* the 0-based indices of the lines that have emitted an item
C13_Emitted == {visited[k].at : k \in {n \in 1..Len(visited) : IsItemVisit(visited[n])}}

\* C13: the description skip never swallows an item line: every line the cursor
\* has passed that matches the item pattern with convertible numbers has emitted
\* exactly one item, whatever precedes it, items are emitted by such lines only,
\* and when the scan is over the number of emitted items (and of the items in
\* the returned record) equals the number of such lines.
C13_NoSwallowedItem ==
    LET passed == {j \in 0..(Min({i, Len(lines)}) - 1) : C13_IsItemLine(lines[j + 1])}
    IN  /\ C13_Emitted = passed
        /\ Len(ItemVisits) = Cardinality(passed)
        /\ Len(items) = Cardinality(passed)
        \* a call ends with the cursor past the last line: passed is then the
        \* set of all item lines of the text
        /\ pc \in {"done", "raised"} => i >= Len(lines)
        /\ (pc \in {"done", "raised"} /\ Extracting)
              => Len(invoice_data.nomenclature) = Cardinality(passed)

\* an item line directly after another item's description line, and one directly
\* after an item line, have both been emitted
C13_Witness ==
    /\ pc = "done"
    /\ Len(lines) = 3
    /\ \/ C13_ItemLines = {0, 2} /\ ~stops_skip(lines[2])
       \/ C13_ItemLines = {0, 1, 2}
       \/ C13_ItemLines = {1, 2}
    /\ Len(items) = Cardinality(C13_ItemLines)

\* ------------------------------------------------------------ consistency
\* the loop, step by step, returns what extract_line_items is as a function
ScanIsFunction ==
    (pc = "done" /\ op = "extract_line_items") => items = extract_line_items(text)

====
